---- MODULE Spec2Model ----
(***************************************************************************)
(* Model of the Redis-Streams event bus of src/app/core/event_bus.py:      *)
(* EventBus.publish, the consumer loop EventBus.start_consuming with       *)
(* _process_message_with_retry / _process_message, the subscription        *)
(* registry, the dead-letter stream and the reconnect path.                *)
(*                                                                         *)
(* The broker is the environment.  A broker call either takes effect and   *)
(* returns, or raises and has no effect; a raised error is either a        *)
(* redis.ConnectionError or another exception.  SpecOk is the program      *)
(* against a broker that answers every call (SpecOkFair adds the fairness  *)
(* of the loop's own steps), Spec lets the broker calls of the consumer    *)
(* loop raise, and SpecPub lets the broker calls of publish() raise.       *)
(***************************************************************************)
EXTENDS Integers, Sequences, FiniteSets, TLC

\* ---------------------------------------------------------------- bounds
MaxStream == 2        \* records the main stream may hold
MaxAttemptsCfg == 3   \* RetryConfig.max_attempts is drawn from 1..MaxAttemptsCfg
MaxPublish == 1       \* calls of publish()
MaxSubs == 2          \* registrations the registry may hold, over all types
MaxLimit == 2         \* get_event_history(limit) is drawn from 1..MaxLimit
MaxHistory == 2       \* calls of get_event_history()
MaxBaseDelay == 2     \* RetryConfig.base_delay is drawn from 1..MaxBaseDelay
MaxExpBase == 2       \* RetryConfig.exponential_base is drawn from 1..MaxExpBase
MaxDelayCfg == 3      \* RetryConfig.max_delay is drawn from 1..MaxDelayCfg
MaxCalls == 4         \* calls of connect(), disconnect(), get_stream_info(), get_event_bus()
MaxRegs == 3          \* registrations the registry may hold when it is checked alone

\* ------------------------------------------------------ program constants
ReadCount == 10       \* xreadgroup(count=10)
DefaultBaseDelay == 1         \* RetryConfig.base_delay = 1.0
DefaultMaxDelay == 60         \* RetryConfig.max_delay = 60.0
DefaultExponentialBase == 2   \* RetryConfig.exponential_base = 2.0
ConnectRetries == 3           \* connect(): max_retries = 3
ConnectRetryDelay == 1        \* connect(): retry_delay = 1.0
ConsumerGroup == "agentic_agile_consumers"
FailedGroup == "agentic_agile_consumers_failed"
\* datetime.utcnow().isoformat(): the clock is not modelled.
UtcNow == "utcnow"
\* Python's None.
NoneValue == "None"
\* The result {} of get_stream_info(): it has no "groups".
NoInfo == -1

\* Two members of the closed enumeration EventType stand for all of them.
EventType == {"agent.heartbeat", "git.push"}
\* A caller may hand publish() any string; "bogus" is not a member.
TypeValues == EventType \cup {"bogus"}
EventPriority == {"normal"}
\* The lowest and the highest member of EventPriority.
PriorityValues == {"low", "critical"}
DataValues == {"d1"}
\* source and target are Optional[str]: one caller names its source and
\* leaves the target None.
SourceValues == {"agent-1"}
TargetValues == {NoneValue}
Handlers == {"h1", "h2"}
\* The tasks, besides the first, that run start_consuming() on the instance.
OtherLoops == {"w2"}
\* No unsubscribe() was called yet.
NoUnsubscribe == [type |-> NoneValue, handler |-> NoneValue, before |-> << >>]
\* Texts of the exceptions a broker call raises.
ConnErr == "ConnectionError"
Errors == {ConnErr, "TimeoutError", "ResponseError"}

VARIABLES
  redis_client,   \* EventBus.redis_client is set (not None)
  running,        \* EventBus.running
  subscribers,    \* EventBus.subscribers: type -> list of callbacks
  max_attempts,   \* EventBus.retry_config.max_attempts
  stream,         \* the main stream: sequence of record fields
  lastDelivered,  \* consumer group cursor: records 1..lastDelivered were delivered
  ack,            \* per record: "none", "ok" (XACK applied) or "error" (xack raised)
  dlq,            \* the dead-letter stream
  nextId,         \* source of fresh envelope ids (uuid4)
  ppc,            \* position of the publish() call in flight
  pevent,         \* its envelope
  pattempt,       \* its local variable attempt
  pappends,       \* xadd calls it has made
  perr,           \* str(e) of the last failed xadd
  poutcome,       \* how the last finished publish() call ended
  pstored,        \* its _store_failed_event call returned normally
  pcalls,         \* publish() calls made so far
  pc,             \* position of the consumer loop
  batch,          \* messages returned by the last xreadgroup
  bpos,           \* index in batch of the record being handled
  attempt,        \* loop variable of _process_message_with_retry
  cbIdx,          \* position of the iteration over subscribers[event_type]
  attempts,       \* per record: calls of _process_message made for it
  invoked,        \* per record: handlers invoked for it, in order
  raisedIn,       \* per record: positions in invoked of the calls that raised
  result,         \* per record: value returned by _process_message_with_retry
  stopRequested,  \* stop_consuming() was called while the loop was running
  base_delay,     \* EventBus.retry_config.base_delay, in seconds
  max_delay,      \* EventBus.retry_config.max_delay, in seconds
  exponential_base, \* EventBus.retry_config.exponential_base
  pslept,         \* delays the publish() call slept, in order
  slept,          \* per record: delays _process_message_with_retry slept
  hcalls,         \* get_event_history() calls made so far
  htype,          \* event_type argument of the last one
  hlimit,         \* limit argument of the last one
  hist,           \* the list it returned
  pool,           \* EventBus.connection_pool: "none", "open" or "closed"
  replaced,       \* state of the pool the last connect() call replaced
  groups,         \* consumer groups of the main stream
  fgroups,        \* consumer groups of the dead-letter stream
  cpc,            \* position of the lifecycle call in flight
  ccall,          \* the lifecycle call in flight, or the last one
  cattempt,       \* loop variable attempt of connect()
  coutcome,       \* how the last finished lifecycle call ended
  ccalls,         \* lifecycle calls made so far
  cinfo,          \* "groups" of the last get_stream_info() result
  gsteps,         \* what get_event_bus() did after a failed health check
  cslept,         \* delays the connect() call slept, in order
  gone,           \* per record: handlers unsubscribed during its dispatch
  ulog,           \* arguments of the last unsubscribe() and the list it found
  others          \* positions of the other consumer loops of the instance

vars == << redis_client, running, subscribers, max_attempts, stream,
           lastDelivered, ack, dlq, nextId, ppc, pevent, pattempt, pappends,
           perr, poutcome, pstored, pcalls, pc, batch, bpos, attempt, cbIdx, attempts,
           invoked, raisedIn, result, stopRequested,
           base_delay, max_delay, exponential_base, pslept, slept,
           hcalls, htype, hlimit, hist, pool, replaced, groups, fgroups,
           cpc, ccall, cattempt, coutcome, ccalls, cinfo, gsteps, cslept,
           gone, ulog, others >>

busVars == << redis_client, running, subscribers, max_attempts >>
pubVars == << nextId, ppc, pevent, pattempt, pappends, perr, poutcome, pstored,
             pcalls >>
loopVars == << pc, batch, bpos, attempt, cbIdx, attempts, invoked, raisedIn,
               result, stopRequested >>
brokerVars == << stream, lastDelivered, ack, dlq >>
cfgVars == << base_delay, max_delay, exponential_base >>
napVars == << pslept, slept >>
histVars == << hcalls, htype, hlimit, hist >>
connVars == << pool, replaced, groups, fgroups >>
callVars == << cpc, ccall, cattempt, coutcome, ccalls, cinfo, gsteps, cslept >>
dispVars == << gone, ulog, others >>
extVars == << cfgVars, napVars, histVars, dispVars, connVars, callVars >>

MsgIds == 1..MaxStream
NoEvent == [id |-> 0]

\* ------------------------------------------------------------ wire codec
\* json.dumps: the text of a value, tagged so that it differs from the value.
Dumps(v) == << "json", v >>
\* A text that json.loads rejects with JSONDecodeError.
Garbage == << "garbage" >>
IsJson(s) == s[1] = "json"
Loads(s) == s[2]

\* EventType(event_type_str) raises ValueError for a non-member.
IsEventType(t) == t \in EventType

\* ------------------------------------------------------------------ Init
\* Everything but the retry configuration, as __init__ leaves it.
InitBus ==
  /\ redis_client = FALSE
  /\ running = FALSE
  /\ subscribers = [t \in EventType |-> << >>]
  /\ max_attempts \in 1..MaxAttemptsCfg
  /\ stream = << >>
  /\ lastDelivered = 0
  /\ ack = [m \in MsgIds |-> "none"]
  /\ dlq = << >>
  /\ nextId = 1
  /\ ppc = "idle"
  /\ pevent = NoEvent
  /\ pattempt = 0
  /\ pappends = 0
  /\ perr = "none"
  /\ poutcome = "none"
  /\ pstored = FALSE
  /\ pcalls = 0
  /\ pc = "idle"
  /\ batch = << >>
  /\ bpos = 0
  /\ attempt = 0
  /\ cbIdx = 0
  /\ attempts = [m \in MsgIds |-> 0]
  /\ invoked = [m \in MsgIds |-> << >>]
  /\ raisedIn = [m \in MsgIds |-> {}]
  /\ result = [m \in MsgIds |-> "none"]
  /\ stopRequested = FALSE
  /\ pslept = << >>
  /\ slept = [m \in MsgIds |-> << >>]
  /\ hcalls = 0
  /\ htype = NoneValue
  /\ hlimit = 0
  /\ hist = << >>
  /\ pool = "none"
  /\ replaced = "none"
  /\ groups = {}
  /\ fgroups = {}
  /\ cpc = "idle"
  /\ ccall = "none"
  /\ cattempt = 0
  /\ coutcome = "none"
  /\ ccalls = 0
  /\ cinfo = NoInfo
  /\ gsteps = << >>
  /\ cslept = << >>
  /\ gone = [m \in 1..MaxStream |-> {}]
  /\ ulog = NoUnsubscribe
  /\ others = [w \in OtherLoops |-> "idle"]

\* A bus built with RetryConfig's default delays and some max_attempts.
Init ==
  /\ InitBus
  /\ base_delay = DefaultBaseDelay
  /\ max_delay = DefaultMaxDelay
  /\ exponential_base = DefaultExponentialBase

\* The loop is an asyncio task: another task of the process runs only while
\* the loop is suspended in an await (a broker call or a sleep), so between
\* the while condition and the xreadgroup, or between two callbacks of one
\* dispatch (a callback is one step here), nothing else happens.
Suspended == pc \notin {"top", "proc", "dispatch"}

\* A bus built with some RetryConfig; the delays are whole seconds.
InitRetryConfig ==
  /\ InitBus
  /\ base_delay \in 1..MaxBaseDelay
  /\ max_delay \in 1..MaxDelayCfg
  /\ exponential_base \in 1..MaxExpBase

\* --------------------------------------------------------------- connect
\* connect() against a reachable broker: the client is created and the
\* groups exist afterwards.
Connect ==
  /\ Suspended
  /\ ~redis_client
  /\ redis_client' = TRUE
  /\ UNCHANGED << running, subscribers, max_attempts >>
  /\ UNCHANGED << brokerVars, pubVars, loopVars >>
  /\ pool' = "open"
  /\ replaced' = pool
  /\ groups' = groups \cup {ConsumerGroup}
  /\ fgroups' = fgroups \cup {FailedGroup}
  /\ UNCHANGED << cfgVars, napVars, histVars, dispVars, callVars >>

\* --------------------------------------------------------------- backoff
Min(a, b) == IF a <= b THEN a ELSE b

RECURSIVE Pow(_, _)
Pow(b, n) == IF n = 0 THEN 1 ELSE b * Pow(b, n - 1)

\* The delay of lines 256-259 with the exponent attempt instead of
\* attempt - 1.
PublishDelayFromAttempt(k) ==
  Min(base_delay * Pow(exponential_base, k), max_delay)

\* Lines 256-259: the delay publish() sleeps after its k-th failed append
\* (k is the value of attempt after line 232).
PublishDelay(k) ==
  Min(base_delay * Pow(exponential_base, k - 1), max_delay)

\* Lines 355-356: the delay slept after the failed attempt number a of
\* range(max_attempts) (0-based).
ProcessDelay(a) ==
  Min(base_delay * Pow(exponential_base, a), max_delay)

\* --------------------------------------------------------------- publish
\* The test of line 241 written with > for >=.
ExhaustedLate(a) == a > max_attempts

\* Line 241: the retries are used up.
Exhausted(a) == a >= max_attempts

\* Line 204: the while condition.
MayAttempt(a) == a < max_attempts

\* x or "" of lines 213-214.
OrEmpty(x) == IF x = NoneValue THEN "" ELSE x

\* The record of lines 209-216 with str(attempt) instead of
\* str(attempt + 1).
RecordFieldsZeroBased(event, a) ==
  [event |-> Dumps(event), type |-> event.type, priority |-> event.priority,
   source |-> OrEmpty(event.source), target |-> OrEmpty(event.target),
   attempt |-> a]

\* Lines 209-216: the fields of the record appended by attempt a.
RecordFields(event, a) ==
  [event |-> Dumps(event), type |-> event.type, priority |-> event.priority,
   source |-> OrEmpty(event.source), target |-> OrEmpty(event.target),
   attempt |-> a + 1]

\* The record of lines 488-493 with the number of retries (one less than the
\* attempts) as its retry_count.
FailedEventRetries(event, error) ==
  [kind |-> "failed_event", event |-> event, failed_at |-> UtcNow,
   error |-> error, retry_count |-> max_attempts - 1]

\* Lines 488-493: the failed-event record.
FailedEvent(event, error) ==
  [kind |-> "failed_event", event |-> event, failed_at |-> UtcNow,
   error |-> error, retry_count |-> max_attempts]

\* publish() on a bus that has no client: RuntimeError, nothing else happens.
PublishNotConnected ==
  /\ Suspended
  /\ ppc = "idle"
  /\ pcalls < MaxPublish
  /\ ~redis_client
  /\ pcalls' = pcalls + 1
  /\ poutcome' = "RuntimeError"
  /\ pappends' = 0
  /\ pattempt' = 0
  /\ pevent' = NoEvent
  /\ UNCHANGED << nextId, ppc, perr, pstored >>
  /\ UNCHANGED << busVars, brokerVars, loopVars >>
  /\ pslept' = << >>
  /\ UNCHANGED << cfgVars, slept, histVars, dispVars, connVars, callVars >>

\* The envelope of lines 191-201 for one choice of the arguments.
NewEvent(t, d, p) ==
  [id |-> nextId, type |-> t, data |-> d, priority |-> p,
   source |-> CHOOSE x \in SourceValues : TRUE,
   target |-> CHOOSE x \in TargetValues : TRUE]

\* publish(event_type, data, priority) whose first xadd (lines 207-217)
\* succeeds: the record is in the stream and the call returns event_id
\* (line 229).
PublishCallOk ==
  /\ Suspended
  /\ ppc = "idle"
  /\ pcalls < MaxPublish
  /\ redis_client
  /\ MayAttempt(0)
  /\ Len(stream) < MaxStream
  /\ \E t \in TypeValues, d \in DataValues, p \in EventPriority :
       /\ pevent' = NewEvent(t, d, p)
       /\ stream' = Append(stream, RecordFields(NewEvent(t, d, p), 0))
  /\ nextId' = nextId + 1
  /\ pcalls' = pcalls + 1
  /\ pattempt' = 0
  /\ pappends' = 1
  /\ perr' = "none"
  /\ poutcome' = "returned"
  /\ pstored' = FALSE
  /\ UNCHANGED ppc
  /\ UNCHANGED << lastDelivered, ack, dlq >>
  /\ UNCHANGED << busVars, loopVars >>
  /\ pslept' = << >>
  /\ UNCHANGED << cfgVars, slept, histVars, dispVars, connVars, callVars >>

\* Lines 231-260 after an xadd that raised with error e, attempt a being
\* the value of attempt before line 232.
AfterXaddFail(a, e) ==
  /\ perr' = e
  /\ pattempt' = a + 1
  /\ ppc' = IF Exhausted(a + 1) THEN "store" ELSE "sleep"
  /\ pslept' = IF Exhausted(a + 1)
                THEN (IF a = 0 THEN << >> ELSE pslept)
                ELSE Append(IF a = 0 THEN << >> ELSE pslept, PublishDelay(a + 1))

\* publish(event_type, data, priority) whose first xadd raises.
PublishCallFail ==
  /\ Suspended
  /\ ppc = "idle"
  /\ pcalls < MaxPublish
  /\ redis_client
  /\ MayAttempt(0)
  /\ \E t \in TypeValues, d \in DataValues, p \in EventPriority :
       pevent' = NewEvent(t, d, p)
  /\ nextId' = nextId + 1
  /\ pcalls' = pcalls + 1
  /\ pappends' = 1
  /\ poutcome' = "pending"
  /\ pstored' = FALSE
  /\ \E e \in Errors : AfterXaddFail(0, e)
  /\ UNCHANGED << busVars, brokerVars, loopVars >>
  /\ UNCHANGED << cfgVars, slept, histVars, dispVars, connVars, callVars >>

\* A later xadd succeeds and the call returns event_id.
PublishXaddOk ==
  /\ Suspended
  /\ ppc = "xadd"
  /\ Len(stream) < MaxStream
  /\ stream' = Append(stream, RecordFields(pevent, pattempt))
  /\ pappends' = pappends + 1
  /\ poutcome' = "returned"
  /\ ppc' = "idle"
  /\ UNCHANGED << nextId, pevent, pattempt, perr, pstored, pcalls >>
  /\ UNCHANGED << lastDelivered, ack, dlq >>
  /\ UNCHANGED << busVars, loopVars >>
  /\ UNCHANGED extVars

\* A later xadd raises.
PublishXaddFail ==
  /\ Suspended
  /\ ppc = "xadd"
  /\ pappends' = pappends + 1
  /\ \E e \in Errors : AfterXaddFail(pattempt, e)
  /\ UNCHANGED << nextId, pevent, poutcome, pstored, pcalls >>
  /\ UNCHANGED << busVars, brokerVars, loopVars >>
  /\ UNCHANGED << cfgVars, slept, histVars, dispVars, connVars, callVars >>

\* The backoff sleep of line 260 ends and the while condition is tested.
PublishSleepDone ==
  /\ Suspended
  /\ ppc = "sleep"
  /\ IF MayAttempt(pattempt)
       THEN /\ ppc' = "xadd"
            /\ UNCHANGED poutcome
       ELSE /\ ppc' = "idle"
            /\ poutcome' = "None"
  /\ UNCHANGED << nextId, pevent, pattempt, pappends, perr, pstored, pcalls >>
  /\ UNCHANGED << busVars, brokerVars, loopVars >>
  /\ UNCHANGED extVars

\* _store_failed_event appends the record; line 253 raises.
PublishStoreOk ==
  /\ Suspended
  /\ ppc = "store"
  /\ dlq' = Append(dlq, FailedEvent(pevent, perr))
  /\ pstored' = TRUE
  /\ poutcome' = "EventPublishError"
  /\ ppc' = "idle"
  /\ UNCHANGED << nextId, pevent, pattempt, pappends, perr, pcalls >>
  /\ UNCHANGED << stream, lastDelivered, ack >>
  /\ UNCHANGED << busVars, loopVars >>
  /\ UNCHANGED extVars

\* _store_failed_event raises: lines 245-251 log it; line 253 raises.
PublishStoreFail ==
  /\ Suspended
  /\ ppc = "store"
  /\ poutcome' = "EventPublishError"
  /\ ppc' = "idle"
  /\ UNCHANGED << nextId, pevent, pattempt, pappends, perr, pstored, pcalls >>
  /\ UNCHANGED << busVars, brokerVars, loopVars >>
  /\ UNCHANGED extVars

\* ------------------------------------------------- subscription registry
\* The list without its last occurrence of h.
RECURSIVE RemoveLast(_, _)
RemoveLast(s, h) ==
  IF s = << >> THEN << >>
  ELSE IF s[Len(s)] = h THEN SubSeq(s, 1, Len(s) - 1)
  ELSE RemoveLast(SubSeq(s, 1, Len(s) - 1), h) \o << s[Len(s)] >>

\* list.remove(h): the list without its first occurrence of h.
RECURSIVE RemoveFirst(_, _)
RemoveFirst(s, h) ==
  IF s = << >> THEN << >>
  ELSE IF Head(s) = h THEN Tail(s)
  ELSE << Head(s) >> \o RemoveFirst(Tail(s), h)

InList(s, h) == \E i \in 1..Len(s) : s[i] = h

\* Registrations held by the registry, over all types.
RECURSIVE TotalSubs(_)
TotalSubs(T) ==
  IF T = {} THEN 0
  ELSE LET t == CHOOSE x \in T : TRUE
       IN Len(subscribers[t]) + TotalSubs(T \ {t})

\* Lines 272-275: the registry after subscribe(event_types, callback), on a
\* registry that holds at most limit registrations afterwards.
SubscribeTo(limit) ==
  \E ets \in (SUBSET EventType) \ {{}}, h \in Handlers :
    /\ TotalSubs(EventType) + Cardinality(ets) <= limit
    /\ subscribers' = [t \in EventType |->
                         IF t \in ets THEN Append(subscribers[t], h)
                                      ELSE subscribers[t]]

\* subscribe(event_types, callback): lines 272-275.
Subscribe ==
  /\ Suspended
  /\ SubscribeTo(MaxSubs)
  /\ UNCHANGED << redis_client, running, max_attempts >>
  /\ UNCHANGED << brokerVars, pubVars, loopVars >>
  /\ UNCHANGED extVars

\* subscribe() on a registry that may hold a handler three times.
SubscribeMany ==
  /\ Suspended
  /\ SubscribeTo(MaxRegs)
  /\ UNCHANGED << redis_client, running, max_attempts >>
  /\ UNCHANGED << brokerVars, pubVars, loopVars >>
  /\ UNCHANGED extVars

\* Lines 287-289: the registry after unsubscribe(t, h).
UnsubscribeOf(t, h) ==
  subscribers' = [subscribers EXCEPT ![t] =
                    IF InList(@, h) THEN RemoveFirst(@, h) ELSE @]

\* unsubscribe(event_type, callback): lines 287-290.
Unsubscribe ==
  /\ Suspended
  /\ \E t \in EventType, h \in Handlers : UnsubscribeOf(t, h)
  /\ UNCHANGED << redis_client, running, max_attempts >>
  /\ UNCHANGED << brokerVars, pubVars, loopVars >>
  /\ UNCHANGED extVars

\* unsubscribe(event_type, callback) with its arguments and the list it
\* found written down.
UnsubscribeLogged ==
  /\ Suspended
  /\ \E t \in EventType, h \in Handlers :
       /\ UnsubscribeOf(t, h)
       /\ ulog' = [type |-> t, handler |-> h, before |-> subscribers[t]]
  /\ UNCHANGED << redis_client, running, max_attempts >>
  /\ UNCHANGED << brokerVars, pubVars, loopVars >>
  /\ UNCHANGED << cfgVars, napVars, histVars, connVars, callVars >>
  /\ UNCHANGED << gone, others >>

\* ------------------------------------------------------ another producer
\* The stream is a broker object: a record written by another client need
\* not hold an envelope.  Its event field is not JSON text.
ForeignAppend ==
  /\ Suspended
  /\ Len(stream) < MaxStream
  /\ stream' = Append(stream, [event |-> Garbage, type |-> "git.push",
                               priority |-> "normal", source |-> "",
                               target |-> "", attempt |-> 1])
  /\ UNCHANGED << lastDelivered, ack, dlq >>
  /\ UNCHANGED << busVars, pubVars, loopVars >>
  /\ UNCHANGED extVars

\* The publish() of a bus in another process appends a record (lines
\* 191-217) with a priority of its choice.
PeerPublish ==
  /\ Suspended
  /\ Len(stream) < MaxStream
  /\ \E t \in EventType, d \in DataValues, p \in PriorityValues :
       stream' = Append(stream, RecordFields(NewEvent(t, d, p), 0))
  /\ nextId' = nextId + 1
  /\ UNCHANGED << lastDelivered, ack, dlq >>
  /\ UNCHANGED << ppc, pevent, pattempt, pappends, perr, poutcome, pstored,
                  pcalls >>
  /\ UNCHANGED << busVars, loopVars >>
  /\ UNCHANGED extVars

\* --------------------------------------------------------- consumer loop
\* The record the loop is handling.
Cur == batch[bpos]

\* Lines 370-380 of _process_message: the envelope decodes, the type field
\* is present and EventType() accepts it.
ParseOk(fields) ==
  /\ IsJson(fields.event)
  /\ fields.type # ""
  /\ IsEventType(fields.type)

\* The test of line 354 written against max_attempts instead of
\* max_attempts - 1.
RetryFollowsOneMore(a) == a < max_attempts

\* Line 354: another attempt follows the failed attempt number a (0-based).
RetryFollows(a) == a < max_attempts - 1

\* Lines 502-509: the failed-message record (it has no error field).
FailedMessage(m, fields) ==
  [kind |-> "failed_message", message_id |-> m, fields |-> fields,
   failed_at |-> UtcNow, retry_count |-> max_attempts]

\* Line 317 without the test: the loop acknowledges whatever was returned.
AckAfterAlways(success) == TRUE

\* Line 317: the loop acknowledges after this return value.
AckAfter(success) == success

\* start_consuming(), lines 294-300 (it raises RuntimeError without a client).
\* The owner of the bus makes its calls one after another: it does not start
\* the loop while a connect() or disconnect() of its own is in flight.
StartConsuming ==
  /\ pc = "idle"
  /\ cpc = "idle"
  /\ redis_client
  /\ running' = TRUE
  /\ pc' = "top"
  /\ UNCHANGED << redis_client, subscribers, max_attempts >>
  /\ UNCHANGED << batch, bpos, attempt, cbIdx, attempts, invoked, raisedIn,
                  result, stopRequested >>
  /\ UNCHANGED << brokerVars, pubVars >>
  /\ UNCHANGED extVars

\* stop_consuming(), lines 333-336.
StopConsuming ==
  /\ Suspended
  /\ running' = FALSE
  /\ stopRequested' = (stopRequested \/ pc \notin {"idle", "done"})
  /\ UNCHANGED << redis_client, subscribers, max_attempts >>
  /\ UNCHANGED << pc, batch, bpos, attempt, cbIdx, attempts, invoked,
                  raisedIn, result >>
  /\ UNCHANGED << brokerVars, pubVars >>
  /\ UNCHANGED extVars

\* A loop that tests nothing: while True.
LoopTopIgnoresFlag ==
  /\ pc = "top"
  /\ pc' = "read"
  /\ UNCHANGED << batch, bpos, attempt, cbIdx, attempts, invoked, raisedIn,
                  result, stopRequested >>
  /\ UNCHANGED << busVars, brokerVars, pubVars >>
  /\ UNCHANGED extVars

\* Line 302: while self.running.
LoopTop ==
  /\ pc = "top"
  /\ pc' = IF running THEN "read" ELSE "done"
  /\ UNCHANGED << batch, bpos, attempt, cbIdx, attempts, invoked, raisedIn,
                  result, stopRequested >>
  /\ UNCHANGED << busVars, brokerVars, pubVars >>
  /\ UNCHANGED extVars

\* What a step of another loop leaves alone.
otherFrame == << redis_client, subscribers, max_attempts, loopVars, brokerVars,
                 pubVars, cfgVars, napVars, histVars, connVars, callVars,
                 gone, ulog >>

\* Another task calls start_consuming() on the instance, lines 294-305: the
\* flag is set, the test of line 302 passes and the task is suspended in its
\* first xreadgroup.  Like every step of another task, this happens while
\* the first loop is suspended.
OtherStart ==
  /\ Suspended
  /\ cpc = "idle"
  /\ redis_client
  /\ \E w \in OtherLoops :
       /\ others[w] = "idle"
       /\ others' = [others EXCEPT ![w] = "read"]
  /\ running' = TRUE
  /\ UNCHANGED otherFrame

\* Lines 305-311 and 302 in another loop, at a time when the group has no
\* undelivered record: xreadgroup returns nothing after its block time, and
\* the test of line 302 sends the loop into its next xreadgroup or ends it.
OtherRead ==
  /\ Suspended
  /\ lastDelivered = Len(stream)
  /\ \E w \in OtherLoops :
       /\ others[w] = "read"
       /\ others' = [others EXCEPT ![w] = IF running THEN "read" ELSE "done"]
  /\ UNCHANGED running
  /\ UNCHANGED otherFrame

\* The members of a set of record ids in ascending order.
RECURSIVE SortedSeq(_)
SortedSeq(S) ==
  IF S = {} THEN << >>
  ELSE LET x == CHOOSE x \in S : \A y \in S : x <= y
       IN << x >> \o SortedSeq(S \ {x})

\* A batch that hands out the critical records first.
ClaimOrderByPriority(n) ==
  LET ids == (lastDelivered + 1)..(lastDelivered + n) IN
    SortedSeq({m \in ids : stream[m].priority = "critical"})
      \o SortedSeq({m \in ids : stream[m].priority # "critical"})

\* Lines 313-314: the n records xreadgroup returned, in the order of the
\* stream, which the two for loops follow.
ClaimOrder(n) == [i \in 1..n |-> lastDelivered + i]

\* xreadgroup(..., {stream: ">"}, count=10) returns: the never-delivered
\* records, at most ReadCount of them, become pending and form the batch.
XReadGroupOk ==
  /\ pc = "read"
  /\ LET n == Min(Len(stream) - lastDelivered, ReadCount) IN
       /\ batch' = ClaimOrder(n)
       /\ lastDelivered' = lastDelivered + n
       /\ bpos' = IF n = 0 THEN 0 ELSE 1
       /\ pc' = IF n = 0 THEN "top" ELSE "proc"
  /\ attempt' = 0
  /\ UNCHANGED << cbIdx, attempts, invoked, raisedIn, result, stopRequested >>
  /\ UNCHANGED << stream, ack, dlq >>
  /\ UNCHANGED << busVars, pubVars >>
  /\ UNCHANGED extVars

\* An exception e leaves the try block of lines 303-324.  Lines 326-328: a
\* ConnectionError starts _handle_connection_error, whose disconnect()
\* clears self.running (line 163) and closes the pool.  Lines 329-331:
\* anything else sleeps.
LoopRaises(e) ==
  /\ batch' = << >>
  /\ bpos' = 0
  /\ attempt' = 0
  /\ IF e = ConnErr
       THEN /\ pc' = "reconnect"
            /\ running' = FALSE
            /\ pool' = IF pool = "none" THEN "none" ELSE "closed"
       ELSE /\ pc' = "errsleep"
            /\ UNCHANGED << running, pool >>

\* xreadgroup raises.
XReadGroupFail ==
  /\ pc = "read"
  /\ \E e \in Errors : LoopRaises(e)
  /\ UNCHANGED << redis_client, subscribers, max_attempts >>
  /\ UNCHANGED << cbIdx, attempts, invoked, raisedIn, result, stopRequested >>
  /\ UNCHANGED << brokerVars, pubVars >>
  /\ UNCHANGED << cfgVars, napVars, histVars, dispVars,
                  replaced, groups, fgroups, callVars >>

\* Line 331: sleep(1) ends.
ErrSleepDone ==
  /\ pc = "errsleep"
  /\ pc' = "top"
  /\ UNCHANGED << batch, bpos, attempt, cbIdx, attempts, invoked, raisedIn,
                  result, stopRequested >>
  /\ UNCHANGED << busVars, brokerVars, pubVars >>
  /\ UNCHANGED extVars

\* _handle_connection_error, lines 521-523: sleep(5), connect() succeeds.
ReconnectOk ==
  /\ pc = "reconnect"
  /\ redis_client' = TRUE
  /\ pc' = "top"
  /\ UNCHANGED << running, subscribers, max_attempts >>
  /\ UNCHANGED << batch, bpos, attempt, cbIdx, attempts, invoked, raisedIn,
                  result, stopRequested >>
  /\ UNCHANGED << brokerVars, pubVars >>
  /\ pool' = "open"
  /\ UNCHANGED << cfgVars, napVars, histVars, dispVars,
                  replaced, groups, fgroups, callVars >>

\* _handle_connection_error, lines 524-526: connect() raises, sleep(10).  The
\* pool its last attempt created (line 105) stays in self.connection_pool.
ReconnectFail ==
  /\ pc = "reconnect"
  /\ pc' = "top"
  /\ UNCHANGED << batch, bpos, attempt, cbIdx, attempts, invoked, raisedIn,
                  result, stopRequested >>
  /\ UNCHANGED << busVars, brokerVars, pubVars >>
  /\ pool' = "open"
  /\ UNCHANGED << cfgVars, napVars, histVars, dispVars,
                  replaced, groups, fgroups, callVars >>

\* The loop goes on to the next record of the batch (line 314), or back to
\* the while condition after the last one.
Advance ==
  IF bpos < Len(batch)
    THEN /\ bpos' = bpos + 1
         /\ pc' = "proc"
         /\ UNCHANGED batch
    ELSE /\ bpos' = 0
         /\ pc' = "top"
         /\ batch' = << >>

\* One call of _process_message (line 342) whose parsing succeeds: the
\* dispatch over subscribers[event_type] begins.
ProcessParseOk ==
  /\ pc = "proc"
  /\ ParseOk(stream[Cur])
  /\ attempts' = [attempts EXCEPT ![Cur] = @ + 1]
  /\ cbIdx' = 1
  /\ pc' = "dispatch"
  /\ UNCHANGED << batch, bpos, attempt, invoked, raisedIn, result,
                  stopRequested >>
  /\ UNCHANGED << busVars, brokerVars, pubVars >>
  /\ UNCHANGED extVars

\* One call of _process_message that returns False (lines 408-428); lines
\* 354-356 sleep before a retry, lines 358-360 follow the last attempt.
ProcessParseFail ==
  /\ pc = "proc"
  /\ ~ParseOk(stream[Cur])
  /\ attempts' = [attempts EXCEPT ![Cur] = @ + 1]
  /\ pc' = IF RetryFollows(attempt) THEN "backoff" ELSE "storemsg"
  /\ UNCHANGED << batch, bpos, attempt, cbIdx, invoked, raisedIn, result,
                  stopRequested >>
  /\ UNCHANGED << busVars, brokerVars, pubVars >>
  /\ slept' = IF RetryFollows(attempt)
               THEN [slept EXCEPT ![Cur] = Append(@, ProcessDelay(attempt))]
               ELSE slept
  /\ UNCHANGED << cfgVars, pslept, histVars, dispVars, connVars, callVars >>

\* The backoff sleep of line 356 ends; the for loop of line 340 goes on.
BackoffDone ==
  /\ pc = "backoff"
  /\ attempt' = attempt + 1
  /\ pc' = "proc"
  /\ UNCHANGED << batch, bpos, cbIdx, attempts, invoked, raisedIn, result,
                  stopRequested >>
  /\ UNCHANGED << busVars, brokerVars, pubVars >>
  /\ UNCHANGED extVars

\* The iteration of line 385 walking the list from its end.
CurHandlerReversed ==
  subscribers[stream[Cur].type]
             [Len(subscribers[stream[Cur].type]) - cbIdx + 1]

\* The callback at the iteration's position, in the live list.
CurHandler == subscribers[stream[Cur].type][cbIdx]

\* Lines 385-388: the next callback is awaited and returns.
HandlerReturns ==
  /\ pc = "dispatch"
  /\ cbIdx <= Len(subscribers[stream[Cur].type])
  /\ invoked' = [invoked EXCEPT ![Cur] = Append(@, CurHandler)]
  /\ cbIdx' = cbIdx + 1
  /\ UNCHANGED << pc, batch, bpos, attempt, attempts, raisedIn, result,
                  stopRequested >>
  /\ UNCHANGED << busVars, brokerVars, pubVars >>
  /\ UNCHANGED extVars

\* The try of line 386 placed around the for loop instead of inside it: the
\* first callback that raises ends the iteration.
HandlerRaisesEndsDispatch ==
  /\ pc = "dispatch"
  /\ cbIdx <= Len(subscribers[stream[Cur].type])
  /\ invoked' = [invoked EXCEPT ![Cur] = Append(@, CurHandler)]
  /\ raisedIn' = [raisedIn EXCEPT ![Cur] = @ \cup {Len(invoked[Cur]) + 1}]
  /\ cbIdx' = Len(subscribers[stream[Cur].type]) + 1
  /\ UNCHANGED << pc, batch, bpos, attempt, attempts, result, stopRequested >>
  /\ UNCHANGED << busVars, brokerVars, pubVars >>
  /\ UNCHANGED extVars

\* No try around the callback: its exception reaches line 422 and the call of
\* _process_message returns False.
HandlerRaisesFailsAttempt ==
  /\ pc = "dispatch"
  /\ cbIdx <= Len(subscribers[stream[Cur].type])
  /\ invoked' = [invoked EXCEPT ![Cur] = Append(@, CurHandler)]
  /\ raisedIn' = [raisedIn EXCEPT ![Cur] = @ \cup {Len(invoked[Cur]) + 1}]
  /\ cbIdx' = 0
  /\ pc' = IF RetryFollows(attempt) THEN "backoff" ELSE "storemsg"
  /\ UNCHANGED << batch, bpos, attempt, attempts, result, stopRequested >>
  /\ UNCHANGED << busVars, brokerVars, pubVars >>
  /\ UNCHANGED extVars

\* Lines 389-397: the next callback raises; the error is logged.
HandlerRaises ==
  /\ pc = "dispatch"
  /\ cbIdx <= Len(subscribers[stream[Cur].type])
  /\ invoked' = [invoked EXCEPT ![Cur] = Append(@, CurHandler)]
  /\ raisedIn' = [raisedIn EXCEPT ![Cur] = @ \cup {Len(invoked[Cur]) + 1}]
  /\ cbIdx' = cbIdx + 1
  /\ UNCHANGED << pc, batch, bpos, attempt, attempts, result, stopRequested >>
  /\ UNCHANGED << busVars, brokerVars, pubVars >>
  /\ UNCHANGED extVars

\* Line 406 returning False when a callback raised: the attempt is retried.
DispatchDoneCountsErrors ==
  /\ pc = "dispatch"
  /\ cbIdx > Len(subscribers[stream[Cur].type])
  /\ cbIdx' = 0
  /\ IF raisedIn[Cur] = {}
       THEN /\ result' = [result EXCEPT ![Cur] = "success"]
            /\ pc' = "ack"
       ELSE /\ pc' = IF RetryFollows(attempt) THEN "backoff" ELSE "storemsg"
            /\ UNCHANGED result
  /\ UNCHANGED << batch, bpos >>
  /\ UNCHANGED << attempt, attempts, invoked, raisedIn, stopRequested >>
  /\ UNCHANGED << busVars, brokerVars, pubVars >>
  /\ UNCHANGED extVars

\* unsubscribe(event_type, callback), lines 287-290, called while the
\* dispatch of lines 385-397 is suspended in the await of a callback, by that
\* callback or by another task.  A callback is one step here: the state after
\* it stands for every moment of its await, the for loop of line 385 fetches
\* its next element afterwards, from the list as it is then.
UnsubscribeInHandler ==
  /\ pc = "dispatch"
  /\ cbIdx >= 2
  /\ \E t \in EventType, h \in Handlers :
       /\ UnsubscribeOf(t, h)
       /\ gone' = [gone EXCEPT ![Cur] =
                     IF t = stream[Cur].type /\ InList(subscribers[t], h)
                       THEN @ \cup {h} ELSE @]
  /\ UNCHANGED << redis_client, running, max_attempts >>
  /\ UNCHANGED << brokerVars, pubVars, loopVars >>
  /\ UNCHANGED << cfgVars, napVars, histVars, connVars, callVars >>
  /\ UNCHANGED << ulog, others >>

\* Line 406 returning False for an event that no callback took: the attempt
\* counts as failed.
DispatchDoneNeedsHandler ==
  /\ pc = "dispatch"
  /\ cbIdx > Len(subscribers[stream[Cur].type])
  /\ cbIdx' = 0
  /\ IF invoked[Cur] # << >>
       THEN /\ result' = [result EXCEPT ![Cur] = "success"]
            /\ pc' = "ack"
       ELSE /\ pc' = IF RetryFollows(attempt) THEN "backoff" ELSE "storemsg"
            /\ UNCHANGED result
  /\ UNCHANGED << batch, bpos >>
  /\ UNCHANGED << attempt, attempts, invoked, raisedIn, stopRequested >>
  /\ UNCHANGED << busVars, brokerVars, pubVars >>
  /\ UNCHANGED extVars

\* Line 406 returning False: the attempt counts as failed after its
\* callbacks ran.
DispatchDoneReturnsFalse ==
  /\ pc = "dispatch"
  /\ cbIdx > Len(subscribers[stream[Cur].type])
  /\ cbIdx' = 0
  /\ pc' = IF RetryFollows(attempt) THEN "backoff" ELSE "storemsg"
  /\ UNCHANGED << batch, bpos, result >>
  /\ UNCHANGED << attempt, attempts, invoked, raisedIn, stopRequested >>
  /\ UNCHANGED << busVars, brokerVars, pubVars >>
  /\ UNCHANGED extVars

\* Line 406: the iteration is over, _process_message returns True, and so
\* does _process_message_with_retry (line 344).
DispatchDone ==
  /\ pc = "dispatch"
  /\ cbIdx > Len(subscribers[stream[Cur].type])
  /\ result' = [result EXCEPT ![Cur] = "success"]
  /\ cbIdx' = 0
  /\ IF AckAfter(TRUE)
       THEN /\ pc' = "ack"
            /\ UNCHANGED << batch, bpos >>
       ELSE Advance
  /\ UNCHANGED << attempt, attempts, invoked, raisedIn, stopRequested >>
  /\ UNCHANGED << busVars, brokerVars, pubVars >>
  /\ UNCHANGED extVars

\* A return after line 360 that ends start_consuming: the rest of the batch
\* is left and the loop is over.
StoreFailedMessageEndsLoop ==
  /\ pc = "storemsg"
  /\ dlq' = Append(dlq, FailedMessage(Cur, stream[Cur]))
  /\ result' = [result EXCEPT ![Cur] = "failed"]
  /\ attempt' = 0
  /\ pc' = "done"
  /\ bpos' = 0
  /\ batch' = << >>
  /\ UNCHANGED << cbIdx, attempts, invoked, raisedIn, stopRequested >>
  /\ UNCHANGED << stream, lastDelivered, ack >>
  /\ UNCHANGED << busVars, pubVars >>
  /\ UNCHANGED extVars

\* _store_failed_message moving the record: the copy is appended to the
\* dead-letter stream and the payload of the original is cut from the main
\* stream.
StoreFailedMessageMoves ==
  /\ pc = "storemsg"
  /\ dlq' = Append(dlq, FailedMessage(Cur, stream[Cur]))
  /\ stream' = [stream EXCEPT ![Cur] = [@ EXCEPT !.event = Garbage]]
  /\ result' = [result EXCEPT ![Cur] = "failed"]
  /\ attempt' = 0
  /\ IF AckAfter(FALSE)
       THEN /\ pc' = "ack"
            /\ UNCHANGED << batch, bpos >>
       ELSE Advance
  /\ UNCHANGED << cbIdx, attempts, invoked, raisedIn, stopRequested >>
  /\ UNCHANGED << lastDelivered, ack >>
  /\ UNCHANGED << busVars, pubVars >>
  /\ UNCHANGED extVars

\* Lines 358-364: _store_failed_message appends the record and
\* _process_message_with_retry returns False.
StoreFailedMessageOk ==
  /\ pc = "storemsg"
  /\ dlq' = Append(dlq, FailedMessage(Cur, stream[Cur]))
  /\ result' = [result EXCEPT ![Cur] = "failed"]
  /\ attempt' = 0
  /\ IF AckAfter(FALSE)
       THEN /\ pc' = "ack"
            /\ UNCHANGED << batch, bpos >>
       ELSE Advance
  /\ UNCHANGED << cbIdx, attempts, invoked, raisedIn, stopRequested >>
  /\ UNCHANGED << stream, lastDelivered, ack >>
  /\ UNCHANGED << busVars, pubVars >>
  /\ UNCHANGED extVars

\* Lines 361-364: _store_failed_message raises; the error is logged.
StoreFailedMessageFail ==
  /\ pc = "storemsg"
  /\ result' = [result EXCEPT ![Cur] = "failed"]
  /\ attempt' = 0
  /\ IF AckAfter(FALSE)
       THEN /\ pc' = "ack"
            /\ UNCHANGED << batch, bpos >>
       ELSE Advance
  /\ UNCHANGED << cbIdx, attempts, invoked, raisedIn, stopRequested >>
  /\ UNCHANGED << busVars, brokerVars, pubVars >>
  /\ UNCHANGED extVars

\* Line 319: xack returns; the record leaves the pending entries.
XAckOk ==
  /\ pc = "ack"
  /\ ack' = [ack EXCEPT ![Cur] = "ok"]
  /\ attempt' = 0
  /\ Advance
  /\ UNCHANGED << cbIdx, attempts, invoked, raisedIn, result, stopRequested >>
  /\ UNCHANGED << stream, lastDelivered, dlq >>
  /\ UNCHANGED << busVars, pubVars >>
  /\ UNCHANGED extVars

\* Line 319: xack raises; the exception leaves both for loops.
XAckFail ==
  /\ pc = "ack"
  /\ ack' = [ack EXCEPT ![Cur] = "error"]
  /\ \E e \in Errors : LoopRaises(e)
  /\ UNCHANGED << redis_client, subscribers, max_attempts >>
  /\ UNCHANGED << cbIdx, attempts, invoked, raisedIn, result, stopRequested >>
  /\ UNCHANGED << stream, lastDelivered, dlq >>
  /\ UNCHANGED << pubVars >>
  /\ UNCHANGED << cfgVars, napVars, histVars, dispVars,
                  replaced, groups, fgroups, callVars >>

\* ------------------------------------------------------------- lifecycle
\* connect(), disconnect(), get_stream_info() and get_event_bus() in their
\* steps.  One of these calls is in flight at a time.
callFrame == << subscribers, max_attempts, brokerVars, pubVars, loopVars,
                cfgVars, napVars, histVars, dispVars >>

\* Lines 105-116: a new pool and a new client replace the ones the bus held.
NewPool ==
  /\ pool' = "open"
  /\ redis_client' = TRUE

\* connect() is entered: the first pass of the loop of line 102 up to the
\* ping of line 118.
BeginConnect ==
  /\ cattempt' = 0
  /\ cslept' = << >>
  /\ replaced' = pool
  /\ NewPool
  /\ cpc' = "c_ping"
  /\ coutcome' = "pending"

\* Line 159 sleeping the delay of the bus's RetryConfig.
AttemptFailedConfigDelay ==
  IF cattempt = ConnectRetries - 1
    THEN /\ cpc' = "idle"
         /\ coutcome' = "EventBusError"
         /\ UNCHANGED cslept
    ELSE /\ cpc' = "c_sleep"
         /\ cslept' = Append(cslept, Min(base_delay * Pow(exponential_base,
                                                          cattempt), max_delay))
         /\ UNCHANGED coutcome

\* Lines 147-159: an exception in the try block of one pass.
AttemptFailed ==
  IF cattempt = ConnectRetries - 1
    THEN /\ cpc' = "idle"
         /\ coutcome' = "EventBusError"
         /\ UNCHANGED cslept
    ELSE /\ cpc' = "c_sleep"
         /\ cslept' = Append(cslept, ConnectRetryDelay * Pow(2, cattempt))
         /\ UNCHANGED coutcome

\* xgroup_create of a group on a reachable broker: the broker answers with
\* the error BUSYGROUP when the group exists.
XGroupCreate(gs, g) == IF g \in gs THEN "BUSYGROUP" ELSE "ok"

\* Lines 129 and 141 without the test: every ResponseError is raised again.
ReraisedAlways(e) == TRUE

\* Lines 129 and 141: the error is raised again unless it says BUSYGROUP.
Reraised(e) == e # "BUSYGROUP"

\* connect() is called.
ConnectCall ==
  /\ cpc = "idle"
  /\ ccalls < MaxCalls
  /\ ccall' = "connect"
  /\ ccalls' = ccalls + 1
  /\ gsteps' = << >>
  /\ BeginConnect
  /\ UNCHANGED << running, groups, fgroups, cinfo >>
  /\ UNCHANGED callFrame

\* Line 118: ping returns.
ConnectPingOk ==
  /\ cpc = "c_ping"
  /\ cpc' = "c_group"
  /\ UNCHANGED << redis_client, running, connVars >>
  /\ UNCHANGED << ccall, cattempt, coutcome, ccalls, cinfo, gsteps, cslept >>
  /\ UNCHANGED callFrame

\* Line 118: ping raises.
ConnectPingFail ==
  /\ cpc = "c_ping"
  /\ AttemptFailed
  /\ UNCHANGED << redis_client, running, connVars >>
  /\ UNCHANGED << ccall, cattempt, ccalls, cinfo, gsteps >>
  /\ UNCHANGED callFrame

\* Lines 121-130: xgroup_create on the main stream is answered.
ConnectGroup ==
  /\ cpc = "c_group"
  /\ LET e == XGroupCreate(groups, ConsumerGroup) IN
       IF e # "ok" /\ Reraised(e)
         THEN /\ AttemptFailed
              /\ UNCHANGED groups
         ELSE /\ groups' = groups \cup {ConsumerGroup}
              /\ cpc' = "c_fgroup"
              /\ UNCHANGED << coutcome, cslept >>
  /\ UNCHANGED << redis_client, running, pool, replaced, fgroups >>
  /\ UNCHANGED << ccall, cattempt, ccalls, cinfo, gsteps >>
  /\ UNCHANGED callFrame

\* Lines 121-130: xgroup_create on the main stream raises another error.
ConnectGroupFail ==
  /\ cpc = "c_group"
  /\ \E e \in Errors : Reraised(e)
  /\ AttemptFailed
  /\ UNCHANGED << redis_client, running, connVars >>
  /\ UNCHANGED << ccall, cattempt, ccalls, cinfo, gsteps >>
  /\ UNCHANGED callFrame

\* Lines 133-145: xgroup_create on the dead-letter stream is answered and
\* connect() returns.
ConnectFGroup ==
  /\ cpc = "c_fgroup"
  /\ LET e == XGroupCreate(fgroups, FailedGroup) IN
       IF e # "ok" /\ Reraised(e)
         THEN /\ AttemptFailed
              /\ UNCHANGED fgroups
         ELSE /\ fgroups' = fgroups \cup {FailedGroup}
              /\ cpc' = "idle"
              /\ coutcome' = "returned"
              /\ UNCHANGED cslept
  /\ UNCHANGED << redis_client, running, pool, replaced, groups >>
  /\ UNCHANGED << ccall, cattempt, ccalls, cinfo, gsteps >>
  /\ UNCHANGED callFrame

\* Lines 133-142: xgroup_create on the dead-letter stream raises another
\* error.
ConnectFGroupFail ==
  /\ cpc = "c_fgroup"
  /\ \E e \in Errors : Reraised(e)
  /\ AttemptFailed
  /\ UNCHANGED << redis_client, running, connVars >>
  /\ UNCHANGED << ccall, cattempt, ccalls, cinfo, gsteps >>
  /\ UNCHANGED callFrame

\* Line 159: the sleep ends; the next pass creates its pool and client.
ConnectSleepDone ==
  /\ cpc = "c_sleep"
  /\ cattempt' = cattempt + 1
  /\ NewPool
  /\ cpc' = "c_ping"
  /\ UNCHANGED << running, replaced, groups, fgroups >>
  /\ UNCHANGED << ccall, coutcome, ccalls, cinfo, gsteps, cslept >>
  /\ UNCHANGED callFrame

\* disconnect() returns.
DisconnectReturns ==
  /\ cpc' = "idle"
  /\ coutcome' = "returned"

\* Lines 171-175 follow the closing of the client.
AfterClientClose ==
  IF pool # "none"
    THEN /\ cpc' = "d_pool"
         /\ UNCHANGED coutcome
    ELSE DisconnectReturns

\* disconnect() is called: line 163, then the tests of lines 165 and 171.
DisconnectCall ==
  /\ cpc = "idle"
  /\ ccalls < MaxCalls
  /\ ccall' = "disconnect"
  /\ ccalls' = ccalls + 1
  /\ running' = FALSE
  /\ IF redis_client
       THEN /\ cpc' = "d_client"
            /\ coutcome' = "pending"
       ELSE AfterClientClose
  /\ UNCHANGED << redis_client, connVars >>
  /\ UNCHANGED << cattempt, cinfo, gsteps, cslept >>
  /\ UNCHANGED callFrame

\* Line 167: redis_client.close() returns.
CloseClientOk ==
  /\ cpc = "d_client"
  /\ AfterClientClose
  /\ UNCHANGED << redis_client, running, connVars >>
  /\ UNCHANGED << ccall, cattempt, ccalls, cinfo, gsteps, cslept >>
  /\ UNCHANGED callFrame

\* No try around line 167: the error of close() leaves disconnect().
CloseClientFailRaises ==
  /\ cpc = "d_client"
  /\ cpc' = "idle"
  /\ coutcome' = "raised"
  /\ UNCHANGED << redis_client, running, connVars >>
  /\ UNCHANGED << ccall, cattempt, ccalls, cinfo, gsteps, cslept >>
  /\ UNCHANGED callFrame

\* Lines 168-169: redis_client.close() raises; the error is logged.
CloseClientFail ==
  /\ cpc = "d_client"
  /\ AfterClientClose
  /\ UNCHANGED << redis_client, running, connVars >>
  /\ UNCHANGED << ccall, cattempt, ccalls, cinfo, gsteps, cslept >>
  /\ UNCHANGED callFrame

\* Line 173: connection_pool.disconnect() returns.
ClosePoolOk ==
  /\ cpc = "d_pool"
  /\ pool' = "closed"
  /\ DisconnectReturns
  /\ UNCHANGED << redis_client, running, replaced, groups, fgroups >>
  /\ UNCHANGED << ccall, cattempt, ccalls, cinfo, gsteps, cslept >>
  /\ UNCHANGED callFrame

\* Lines 174-175: connection_pool.disconnect() raises; the error is logged.
ClosePoolFail ==
  /\ cpc = "d_pool"
  /\ DisconnectReturns
  /\ UNCHANGED << redis_client, running, connVars >>
  /\ UNCHANGED << ccall, cattempt, ccalls, cinfo, gsteps, cslept >>
  /\ UNCHANGED callFrame

\* get_stream_info(), lines 467-483, on a reachable broker: {} without a
\* client and when xinfo_stream raises because the stream does not exist
\* (connect creates it with mkstream), else the number of groups.
GetStreamInfo ==
  /\ cpc = "idle"
  /\ ccalls < MaxCalls
  /\ ccall' = "get_stream_info"
  /\ ccalls' = ccalls + 1
  /\ coutcome' = "returned"
  /\ cinfo' = IF redis_client /\ groups # {} THEN Cardinality(groups)
                                             ELSE NoInfo
  /\ UNCHANGED << redis_client, running, connVars >>
  /\ UNCHANGED << cpc, cattempt, gsteps, cslept >>
  /\ UNCHANGED callFrame

\* get_event_bus(), lines 567-572: connect() for a bus without a client,
\* else the health check.
GetEventBusCall ==
  /\ cpc = "idle"
  /\ ccalls < MaxCalls
  /\ ccall' = "get_event_bus"
  /\ ccalls' = ccalls + 1
  /\ gsteps' = << >>
  /\ IF ~redis_client
       THEN BeginConnect
       ELSE /\ cpc' = "g_ping"
            /\ coutcome' = "pending"
            /\ UNCHANGED << redis_client, pool, replaced, cattempt, cslept >>
  /\ UNCHANGED << running, groups, fgroups, cinfo >>
  /\ UNCHANGED callFrame

\* Lines 572 and 577: the ping returns and the caller gets the bus.
HealthPingOk ==
  /\ cpc = "g_ping"
  /\ cpc' = "idle"
  /\ coutcome' = "returned"
  /\ UNCHANGED << redis_client, running, connVars >>
  /\ UNCHANGED << ccall, cattempt, ccalls, cinfo, gsteps, cslept >>
  /\ UNCHANGED callFrame

\* Lines 573-575: the ping raises and connect() is entered.
HealthPingFail ==
  /\ cpc = "g_ping"
  /\ gsteps' = << "connect" >>
  /\ BeginConnect
  /\ UNCHANGED << running, groups, fgroups >>
  /\ UNCHANGED << ccall, ccalls, cinfo >>
  /\ UNCHANGED callFrame

\* --------------------------------------------------------------- history
\* The client is built with decode_responses=True (line 115): the keys of a
\* record's fields are str.  A bytes key is another value than the str with
\* the same letters.
BytesKey(k) == "b'" \o k \o "'"

\* dict.get(key, default).
DictGet(d, key, default) == IF key \in DOMAIN d THEN d[key] ELSE default

\* The dict of json.loads("{}").
EmptyDict == << >>

\* {**a, **b}
Merge(a, b) ==
  [k \in DOMAIN a \cup DOMAIN b |-> IF k \in DOMAIN b THEN b[k] ELSE a[k]]

\* Line 448: the text handed to json.loads for a record.
HistoryText(fields) == DictGet(fields, BytesKey("event"), Dumps(EmptyDict))

\* Lines 454-457: the entry of a record.
HistoryEntry(m) == Merge([message_id |-> m], Loads(HistoryText(stream[m])))

\* Line 451: the filter passes the entry.
HistoryKeeps(e, t) == t = NoneValue \/ DictGet(e, "type", NoneValue) = t

\* Lines 441-463: xrevrange returns the newest records first, at most limit
\* of them; an exception of json.loads returns the empty list.
EventHistory(t, limit) ==
  LET n == Min(limit, Len(stream))
      msgs == [i \in 1..n |-> Len(stream) + 1 - i]
  IN IF \E i \in 1..n : ~IsJson(HistoryText(stream[msgs[i]]))
       THEN << >>
       ELSE SelectSeq([i \in 1..n |-> HistoryEntry(msgs[i])],
                      LAMBDA e : HistoryKeeps(e, t))

\* get_event_history(event_type, limit), lines 436-463.
GetEventHistory ==
  /\ hcalls < MaxHistory
  /\ \E t \in EventType \cup {NoneValue}, limit \in 1..MaxLimit :
       /\ htype' = t
       /\ hlimit' = limit
       /\ hist' = IF redis_client THEN EventHistory(t, limit) ELSE << >>
  /\ hcalls' = hcalls + 1
  /\ UNCHANGED << busVars, brokerVars, pubVars, loopVars >>
  /\ UNCHANGED << cfgVars, napVars, dispVars, connVars, callVars >>

\* ----------------------------------------------------------- the program
\* The publisher when every broker call is answered.
PublishOk ==
  \/ Connect
  \/ PublishCallOk

\* publish() without a client, and the publisher's steps when an xadd raises.
PublishFaults ==
  \/ PublishNotConnected
  \/ PublishCallFail
  \/ PublishXaddOk
  \/ PublishXaddFail
  \/ PublishSleepDone
  \/ PublishStoreOk
  \/ PublishStoreFail

\* The registry, the other producer and the consumer loop when every broker
\* call is answered.
ConsumeOk ==
  \/ Subscribe
  \/ Unsubscribe
  \/ ForeignAppend
  \/ StartConsuming
  \/ StopConsuming
  \/ LoopTop
  \/ XReadGroupOk
  \/ ProcessParseOk
  \/ ProcessParseFail
  \/ BackoffDone
  \/ HandlerReturns
  \/ HandlerRaises
  \/ DispatchDone
  \/ StoreFailedMessageOk
  \/ XAckOk

\* The loop's steps when one of its broker calls raises.
ConsumeFaults ==
  \/ XReadGroupFail
  \/ XAckFail
  \/ StoreFailedMessageFail
  \/ ErrSleepDone
  \/ ReconnectOk
  \/ ReconnectFail

\* Publishing against a broker whose calls may raise.
NextPub == PublishOk \/ PublishFaults
SpecPub == Init /\ [][NextPub]_vars

\* Publishing and consuming against a broker that answers every call.
NextOk == PublishOk \/ ConsumeOk
SpecOk == Init /\ [][NextOk]_vars

\* The steps of the consumer loop itself.  The event loop resumes a task
\* whose await is over: xreadgroup returns after block=1000 ms at the latest,
\* a sleep ends, and a callback returns or raises.
LoopStep ==
  \/ LoopTop
  \/ XReadGroupOk
  \/ ProcessParseOk
  \/ ProcessParseFail
  \/ BackoffDone
  \/ HandlerReturns
  \/ HandlerRaises
  \/ DispatchDone
  \/ StoreFailedMessageOk
  \/ XAckOk
SpecOkFair == SpecOk /\ WF_vars(LoopStep)

\* Publishing and consuming; the broker calls of the loop may raise.
Next == PublishOk \/ ConsumeOk \/ ConsumeFaults
Spec == Init /\ [][Next]_vars

\* The loop on records no handler is registered for.
RetryOnly ==
  \/ ForeignAppend
  \/ StartConsuming
  \/ LoopTop
  \/ XReadGroupOk
  \/ ProcessParseOk
  \/ ProcessParseFail
  \/ BackoffDone
  \/ DispatchDone
  \/ StoreFailedMessageOk
  \/ XAckOk

\* The retries of publish() and of the loop under any retry configuration.
NextBackoff == PublishOk \/ PublishFaults \/ RetryOnly
SpecBackoff == InitRetryConfig /\ [][NextBackoff]_vars

\* One loop with handlers on a stream that other buses publish to with
\* different priorities.
NextPrio ==
  \/ Connect
  \/ PeerPublish
  \/ Subscribe
  \/ StartConsuming
  \/ LoopTop
  \/ XReadGroupOk
  \/ ProcessParseOk
  \/ HandlerReturns
  \/ HandlerRaises
  \/ DispatchDone
  \/ XAckOk
SpecPrio == Init /\ [][NextPrio]_vars

\* The lifecycle calls against a reachable broker, and a loop on an empty
\* stream.
LifecycleOk ==
  \/ ConnectCall
  \/ ConnectPingOk
  \/ ConnectGroup
  \/ ConnectFGroup
  \/ DisconnectCall
  \/ CloseClientOk
  \/ CloseClientFail
  \/ ClosePoolOk
  \/ ClosePoolFail
  \/ GetStreamInfo
  \/ GetEventBusCall
  \/ HealthPingOk
  \/ StartConsuming
  \/ LoopTop
  \/ XReadGroupOk

\* The steps of the lifecycle calls when a broker call raises.
LifecycleFaults ==
  \/ ConnectPingFail
  \/ ConnectGroupFail
  \/ ConnectFGroupFail
  \/ ConnectSleepDone
  \/ HealthPingFail

NextConnOk == LifecycleOk
SpecConnOk == Init /\ [][NextConnOk]_vars

NextConn == LifecycleOk \/ LifecycleFaults
SpecConn == Init /\ [][NextConn]_vars

\* connect() alone, on a bus built with some RetryConfig, against a broker
\* that may fail any of its calls.
NextConnect ==
  \/ ConnectCall
  \/ ConnectPingOk
  \/ ConnectPingFail
  \/ ConnectGroup
  \/ ConnectGroupFail
  \/ ConnectFGroup
  \/ ConnectFGroupFail
  \/ ConnectSleepDone
SpecConnect == InitRetryConfig /\ [][NextConnect]_vars

\* Publishing and consuming with unsubscribe() calls during a dispatch.
NextDispatch == NextOk \/ UnsubscribeInHandler
SpecDispatch == Init /\ [][NextDispatch]_vars

\* One publisher, the consumer loop with its reconnect, the registry calls,
\* stop_consuming(), disconnect() and get_stream_info() side by side.
NextKeep ==
  \/ Connect
  \/ PublishCallOk
  \/ Subscribe
  \/ Unsubscribe
  \/ StartConsuming
  \/ StopConsuming
  \/ LoopTop
  \/ XReadGroupOk
  \/ XReadGroupFail
  \/ ErrSleepDone
  \/ ReconnectOk
  \/ ProcessParseOk
  \/ ProcessParseFail
  \/ BackoffDone
  \/ HandlerReturns
  \/ DispatchDone
  \/ StoreFailedMessageOk
  \/ XAckOk
  \/ DisconnectCall
  \/ CloseClientOk
  \/ ClosePoolOk
  \/ GetStreamInfo
SpecKeep == Init /\ [][NextKeep]_vars

\* Two loops on one instance, with stop_consuming() and disconnect() calls.
NextLoops ==
  \/ Connect
  \/ StartConsuming
  \/ StopConsuming
  \/ LoopTop
  \/ XReadGroupOk
  \/ OtherStart
  \/ OtherRead
  \/ DisconnectCall
  \/ CloseClientOk
  \/ ClosePoolOk
SpecLoops == Init /\ [][NextLoops]_vars

\* The registry alone: subscribe() and unsubscribe() calls.
NextRegistry == SubscribeMany \/ UnsubscribeLogged
SpecRegistry == Init /\ [][NextRegistry]_vars

\* Publishers and a reader of the history.
NextHist == PublishOk \/ ForeignAppend \/ GetEventHistory
SpecHist == Init /\ [][NextHist]_vars

\* ================================================================ claims
\* Records of the main stream that carry the envelope with this id.
WithId(id) ==
  {m \in 1..Len(stream) : IsJson(stream[m].event) /\ Loads(stream[m].event).id = id}

\* Failed-event records of the dead-letter stream for the envelope with this id.
FailedEventsOf(id) ==
  {i \in 1..Len(dlq) : dlq[i].kind = "failed_event" /\ dlq[i].event.id = id}

\* Failed-message records of the dead-letter stream for record m.
FailedMessagesOf(m) ==
  {i \in 1..Len(dlq) : dlq[i].kind = "failed_message" /\ dlq[i].message_id = m}

\* A publish() call has ended.
PublishEnded == ppc = "idle" /\ pcalls > 0

\* The appends of a publish() call that entered its retry loop: at most
\* max_attempts of them; a return follows the first append that succeeded,
\* EventPublishError follows max_attempts failed appends.
RetryLoopOutcome ==
  /\ pappends <= max_attempts
  /\ poutcome = "returned" =>
       /\ PublishEnded
       /\ pappends = pattempt + 1
       /\ Cardinality(WithId(pevent.id)) = 1
  /\ poutcome = "EventPublishError" =>
       /\ PublishEnded
       /\ pappends = max_attempts
       /\ pattempt = max_attempts
       /\ WithId(pevent.id) = {}
  /\ poutcome = "pending" => ppc # "idle"

\* C1 as stated: one call of publish() makes at most max_attempts appends
\* and ends in one of exactly two ways, the return of the envelope id after
\* the first append that succeeds or EventPublishError after max_attempts
\* failed appends.
C1_TwoOutcomes ==
  /\ RetryLoopOutcome
  /\ PublishEnded => poutcome \in {"returned", "EventPublishError"}

\* C1 amended: a call of publish() on a bus that has a client makes at most
\* max_attempts appends and ends in one of exactly two ways, the return of
\* the envelope id after the first append that succeeds or EventPublishError
\* after max_attempts failed appends; on a bus without a client the call
\* raises RuntimeError and appends nothing.
C1_OutcomesWithClient ==
  /\ [](/\ RetryLoopOutcome
        /\ PublishEnded => poutcome \in {"returned", "EventPublishError", "RuntimeError"}
        /\ poutcome = "RuntimeError" => pappends = 0 /\ pevent = NoEvent)
  /\ [][/\ (poutcome' = "RuntimeError" /\ pcalls' # pcalls)
             => (~redis_client /\ stream' = stream /\ dlq' = dlq)
        /\ (pcalls' # pcalls /\ redis_client) => poutcome' # "RuntimeError"]_vars

\* C1 witness: a call returned from its last permitted append, after two
\* appends that failed.
C1_Witness ==
  /\ max_attempts = 3
  /\ poutcome = "returned"
  /\ pappends = 3

\* C2: when publish() has used up its appends, one failed-event record with
\* the full envelope, the last error text and retry_count = max_attempts is
\* in the dead-letter stream before EventPublishError is raised; when that
\* append fails there is none, and the caller still gets EventPublishError.
C2_FailedEventStored ==
  /\ ppc = "store" => pattempt = max_attempts /\ FailedEventsOf(pevent.id) = {}
  /\ poutcome \in {"returned", "pending"} => FailedEventsOf(pevent.id) = {}
  /\ \A i \in 1..Len(dlq) : dlq[i].kind = "failed_event" =>
       /\ dlq[i].retry_count = max_attempts
       /\ dlq[i].error \in Errors
       /\ WithId(dlq[i].event.id) = {}
  /\ poutcome = "EventPublishError" =>
       /\ pstored =>
            /\ Cardinality(FailedEventsOf(pevent.id)) = 1
            /\ \A i \in FailedEventsOf(pevent.id) :
                 /\ dlq[i].event = pevent
                 /\ dlq[i].error = perr
                 /\ dlq[i].retry_count = pappends
       /\ ~pstored => FailedEventsOf(pevent.id) = {}
  /\ (PublishEnded /\ pattempt = max_attempts) => poutcome = "EventPublishError"

\* C2 witness: a call that failed after three appends left its record.
C2_Witness ==
  /\ max_attempts = 3
  /\ poutcome = "EventPublishError"
  /\ pstored
  /\ Len(dlq) = 1

\* The envelope of a record decodes and its type is a member of EventType.
WellFormed(m) == IsJson(stream[m].event) /\ stream[m].type \in EventType

\* The loop is handling record m.
Handling(m) == pc \in {"proc", "dispatch", "backoff", "storemsg", "ack"} /\ Cur = m

\* Record m is in the claimed batch, behind the record being handled.
Waiting(m) ==
  /\ pc \in {"proc", "dispatch", "backoff", "storemsg", "ack"}
  /\ \E i \in (bpos + 1)..Len(batch) : batch[i] = m

\* The loop is not inside a claimed batch.
OutsideBatch == pc \in {"idle", "top", "read", "errsleep", "reconnect", "done"}

\* xreadgroup with ">" returns a record only while it is above the cursor.
Redeliverable(m) == m > lastDelivered

\* C3 as stated: a claimed record is acknowledged if and only if its
\* processing returned success, also when a broker call fails.
C3_AckIffSuccess ==
  \A m \in 1..lastDelivered :
    /\ ack[m] = "ok" => result[m] = "success"
    /\ (result[m] = "success" /\ ~Handling(m)) => ack[m] = "ok"

\* C4: when one of several handlers of a record's type raises, every other
\* registered handler is still invoked for the record, processing is a
\* success and the record is acknowledged.
C4_HandlerIsolation ==
  /\ [][(pc = "dispatch" /\ pc' # "dispatch") =>
          /\ invoked'[Cur] = subscribers[stream[Cur].type]
          /\ result'[Cur] = "success"
          /\ pc' = "ack"
          /\ batch'[bpos'] = Cur]_vars
  /\ [](\A m \in 1..lastDelivered : raisedIn[m] # {} =>
          \/ pc = "dispatch" /\ Cur = m
          \/ /\ result[m] = "success"
             /\ ack[m] = "ok" \/ (pc = "ack" /\ Cur = m))

\* C4 witness: the first of two different handlers raised, the second was
\* invoked after it, and the record is acknowledged.
C4_Witness ==
  \E m \in 1..lastDelivered :
    /\ Len(invoked[m]) = 2
    /\ invoked[m][1] # invoked[m][2]
    /\ raisedIn[m] = {1}
    /\ ack[m] = "ok"

\* C5 as stated: no record delivered to the loop is dropped.  Once the loop
\* is no longer inside a batch, every record delivered to it was dispatched
\* and its acknowledge issued, or was dead-lettered (its retries were used up
\* and its copy written, or the failed write logged), or can be delivered
\* again.
C5_NoSilentDrop ==
  OutsideBatch =>
    \A m \in 1..lastDelivered :
      \/ result[m] = "success" /\ ack[m] \in {"ok", "error"}
      \/ FailedMessagesOf(m) # {}
      \/ result[m] = "failed"
      \/ Redeliverable(m)

\* C6 as stated: the loop ends only after stop was requested (a connection
\* error reconnects and the loop keeps running).
C6_EndsOnlyOnStop == pc = "done" => stopRequested

\* C7: a claimed record whose envelope does not decode or whose type is no
\* member of EventType is attempted max_attempts times, no handler is invoked
\* for it, one failed-message record with retry_count = max_attempts is
\* appended to the dead-letter stream, and it stays pending, unacknowledged.
C7_MalformedRecord ==
  \A m \in 1..Len(stream) : ~WellFormed(m) =>
    /\ invoked[m] = << >>
    /\ ack[m] = "none"
    /\ result[m] # "success"
    /\ attempts[m] <= max_attempts
    /\ Handling(m) => attempts[m] \in {attempt, attempt + 1}
    /\ result[m] = "none" => FailedMessagesOf(m) = {}
    /\ result[m] = "failed" =>
         /\ m <= lastDelivered
         /\ attempts[m] = max_attempts
         /\ Cardinality(FailedMessagesOf(m)) = 1
         /\ \A i \in FailedMessagesOf(m) :
              /\ dlq[i].fields = stream[m]
              /\ dlq[i].retry_count = attempts[m]
    /\ (m <= lastDelivered /\ ~Handling(m) /\ ~Waiting(m)) => result[m] = "failed"

\* C7 witness: a record with undecodable JSON and a record of an unknown
\* type were both dead-lettered after three attempts each.
C7_Witness ==
  /\ max_attempts = 3
  /\ \E m, n \in 1..lastDelivered :
       /\ ~IsJson(stream[m].event)
       /\ IsJson(stream[n].event) /\ stream[n].type \notin EventType
       /\ result[m] = "failed" /\ result[n] = "failed"
       /\ Len(dlq) = 2

\* Every handler invoked for record m raised, and at least one was invoked.
AllRaised(m) == invoked[m] # << >> /\ raisedIn[m] = 1..Len(invoked[m])

\* C8 as stated: a well-formed record whose handler raises on every
\* invocation results in one failed-message record with retry_count =
\* max_attempts.
C8_AlwaysFailingDeadLettered ==
  \A m \in 1..lastDelivered :
    (WellFormed(m) /\ AllRaised(m) /\ ~Handling(m)) =>
      /\ Cardinality(FailedMessagesOf(m)) = 1
      /\ \A i \in FailedMessagesOf(m) : dlq[i].retry_count = max_attempts

\* C8 amended: a well-formed record whose handler raises on every invocation
\* results in no failed-message record: its first processing attempt is a
\* success and the record is acknowledged.
C8_AlwaysFailingAcked ==
  \A m \in 1..lastDelivered :
    (WellFormed(m) /\ AllRaised(m)) =>
      /\ attempts[m] = 1
      /\ FailedMessagesOf(m) = {}
      /\ result[m] # "failed"
      /\ ~Handling(m) => result[m] = "success" /\ ack[m] = "ok"

\* C8 witness: with retries configured, the only handler of a record raised
\* and the record is acknowledged.
C8_Witness ==
  /\ max_attempts >= 2
  /\ \E m \in 1..lastDelivered :
       /\ AllRaised(m)
       /\ ~Handling(m)
       /\ ack[m] = "ok"

\* C9 as stated: a handler that raised for a record is invoked again by the
\* processing retries until it succeeds, and the record is then acknowledged
\* with no dead-letter record.
C9_ReinvokedUntilSuccess ==
  \A m \in 1..lastDelivered :
    (max_attempts >= 2 /\ raisedIn[m] # {} /\ ~Handling(m)) =>
      /\ ack[m] = "ok"
      /\ FailedMessagesOf(m) = {}
      /\ \A i \in raisedIn[m] :
           \E j \in (i + 1)..Len(invoked[m]) :
             invoked[m][j] = invoked[m][i] /\ j \notin raisedIn[m]

\* C9 amended: a record for which a handler raised is processed in a single
\* attempt and acknowledged once, with no dead-letter record; no handler is
\* invoked for it again after that dispatch.
C9_FailedHandlerNotReinvoked ==
  /\ [](\A m \in 1..lastDelivered : raisedIn[m] # {} =>
          /\ attempts[m] = 1
          /\ FailedMessagesOf(m) = {}
          /\ ~Handling(m) => result[m] = "success" /\ ack[m] = "ok")
  /\ [][\A m \in 1..lastDelivered :
          (raisedIn[m] # {} /\ ~(pc = "dispatch" /\ Cur = m)) =>
            /\ invoked'[m] = invoked[m]
            /\ attempts'[m] = attempts[m]
            /\ ack[m] = "ok" => ack'[m] = "ok"]_vars

\* C9 witness: with retries configured, one handler raised and the record
\* is acknowledged after its single attempt.
C9_Witness ==
  /\ max_attempts = 3
  /\ \E m \in 1..lastDelivered :
       /\ raisedIn[m] # {}
       /\ raisedIn[m] # 1..Len(invoked[m])
       /\ attempts[m] = 1
       /\ ack[m] = "ok"

\* C10: after stop_consuming() is called while the loop runs, the loop issues
\* no further xreadgroup, every record of the batch it has claimed is still
\* processed to its outcome (acknowledged or dead-lettered), and the loop
\* then terminates.
C10_GracefulStop ==
  /\ [][stopRequested => ~(pc # "read" /\ pc' = "read")]_vars
  /\ [](pc = "done" =>
          \A m \in 1..lastDelivered : ack[m] = "ok" \/ FailedMessagesOf(m) # {})
  /\ [][(stopRequested /\ pc # "read") => lastDelivered' = lastDelivered]_vars
  /\ (stopRequested ~> pc = "done")

\* C10 witness: stop was requested before the first record of a claimed
\* batch of two was settled, and the loop goes on to the second record.
C10_Witness ==
  /\ stopRequested
  /\ pc = "proc"
  /\ bpos = 2
  /\ ack[batch[1]] = "ok"

\* An entry of the history is the envelope ev.
IsEntryOf(e, ev) ==
  /\ {"id", "data", "priority", "source", "target"} \subseteq DOMAIN e
  /\ e["id"] = ev.id
  /\ e["data"] = ev.data
  /\ e["priority"] = ev.priority
  /\ e["source"] = ev.source
  /\ e["target"] = ev.target

\* C11 as stated: after publish(T, data, priority, source, target) returned
\* an id, get_event_history(event_type=T), called with a limit that covers
\* the whole stream, returns an entry with that id and the published data,
\* priority, source and target.
C11_HistoryRoundTrip ==
  [][(/\ hcalls' # hcalls
      /\ poutcome = "returned"
      /\ htype' = pevent.type
      /\ hlimit' >= Len(stream))
     => \E i \in 1..Len(hist') : IsEntryOf(hist'[i], pevent)]_vars

\* C12 as stated: every record publish() appended to the main stream carries
\* a type that is a member of EventType (a call with another value appends
\* nothing).
C12_UnknownTypeRejected ==
  \A m \in 1..Len(stream) : stream[m].type \in EventType

\* C13: a connect() call on a reachable broker never fails an attempt and
\* never raises, also when the groups exist already; a second connect()
\* leaves the groups as they are, and get_stream_info() reports the same
\* number of groups after it as before it.
C13_IdempotentConnect ==
  /\ [](/\ cpc # "c_sleep"
        /\ coutcome # "EventBusError"
        /\ (ccall = "connect" /\ cpc = "idle") => coutcome = "returned")
  /\ [][(ccall' = "connect" /\ groups # {}) => groups' = groups]_vars
  /\ [][(/\ ccall = "connect"
          /\ cinfo # NoInfo
          /\ ccalls' # ccalls
          /\ ccall' = "get_stream_info") => cinfo' = cinfo]_vars

\* C13 witness: get_stream_info() reported one group, and a second connect()
\* (it replaced an open pool) has returned.
C13_Witness ==
  /\ ccall = "connect"
  /\ cpc = "idle"
  /\ coutcome = "returned"
  /\ replaced = "open"
  /\ cinfo = 1
  /\ Cardinality(groups) = 1

\* C14 as stated: when the ping of get_event_bus() fails, the bus runs
\* disconnect, wait, connect in this order, so that the old pool is closed
\* when the new one is created, and the caller gets the bus back.
C14_HealthCheckReconnect ==
  (ccall = "get_event_bus" /\ gsteps # << >>) =>
    /\ gsteps = << "disconnect", "wait", "connect" >>
    /\ replaced = "closed"
    /\ coutcome # "EventBusError"

\* A lifecycle call ends with this step.
CallEnds == cpc' = "idle" /\ (cpc # "idle" \/ ccalls' # ccalls)

\* C15: disconnect() never raises, whether the bus was never connected, is
\* connected or was disconnected before, and whether or not closing the
\* client or the pool raises; when it returns, the consuming flag is false.
C15_DisconnectSafe ==
  /\ [](ccall = "disconnect" => coutcome \in {"pending", "returned"})
  /\ [][(ccall' = "disconnect" /\ CallEnds) =>
          (coutcome' = "returned" /\ ~running')]_vars
  /\ [][(ccall' = "disconnect" /\ ccalls' # ccalls) => ~running']_vars

\* C15 witness: a disconnect() that follows another disconnect() on a bus
\* that was consuming is at the closing of its client once more.
C15_Witness ==
  /\ ccall = "disconnect"
  /\ cpc = "d_client"
  /\ pool = "closed"
  /\ pc = "done"

\* The delay the retry after the k-th failed attempt waits for.
ClaimedDelay(k) == Min(base_delay * Pow(exponential_base, k - 1), max_delay)

\* The delays d of one failing operation: the k-th is ClaimedDelay(k), none
\* exceeds max_delay, they never decrease, and there are at most
\* max_attempts - 1 of them.
DelaysAsClaimed(d) ==
  /\ Len(d) <= max_attempts - 1
  /\ \A k \in 1..Len(d) :
       /\ d[k] = ClaimedDelay(k)
       /\ d[k] <= max_delay
       /\ k > 1 => d[k - 1] <= d[k]

\* C16: in publish() and in _process_message_with_retry the retry after the
\* k-th failed attempt (k = 1 .. max_attempts-1) waits
\* min(base_delay * exponential_base^(k-1), max_delay); with
\* exponential_base >= 1 the delays of one operation never decrease, none
\* exceeds max_delay, and nothing is waited after the last failed attempt.
C16_Backoff ==
  /\ DelaysAsClaimed(pslept)
  /\ ppc \in {"sleep", "xadd"} => Len(pslept) = pattempt
  /\ (ppc = "store" \/ poutcome = "EventPublishError") =>
       /\ pattempt = max_attempts
       /\ Len(pslept) = max_attempts - 1
  /\ \A m \in MsgIds :
       /\ DelaysAsClaimed(slept[m])
       /\ (pc = "backoff" /\ Cur = m) => Len(slept[m]) = attempts[m]
       /\ (result[m] = "failed" \/ (pc = "storemsg" /\ Cur = m)) =>
            /\ attempts[m] = max_attempts
            /\ Len(slept[m]) = max_attempts - 1

\* C16 witness: with base_delay 2, exponential_base 2 and max_delay 3 a
\* publish() and a record both failed three times, each after the delays 2
\* and 3 (the second one capped).
C16_Witness ==
  /\ max_attempts = 3
  /\ poutcome = "EventPublishError"
  /\ pslept = << 2, 3 >>
  /\ \E m \in 1..lastDelivered : result[m] = "failed" /\ slept[m] = << 2, 3 >>

\* C17 as stated: every record of the dead-letter stream carries the
\* original envelope or the raw record fields, a failed_at timestamp, the
\* last error text and a retry_count.
C17_DeadLetterFields ==
  \A i \in 1..Len(dlq) :
    /\ "event" \in DOMAIN dlq[i] \/ "fields" \in DOMAIN dlq[i]
    /\ {"failed_at", "error", "retry_count"} \subseteq DOMAIN dlq[i]

\* C18: one loop starts the processing of the records it claims in the order
\* of their appending, whatever their priorities: a batch is in stream
\* order, processing of a record begins only when every record appended
\* before it has had its own, and a handler is invoked for it only when
\* every earlier record has its outcome.
C18_AppendOrderDispatch ==
  /\ [](\A i, j \in 1..Len(batch) : i < j => batch[i] < batch[j])
  /\ [][\A m \in MsgIds :
          (attempts'[m] > attempts[m] \/ invoked'[m] # invoked[m]) =>
            \A n \in 1..(m - 1) :
              /\ attempts[n] >= 1
              /\ result[n] # "none"]_vars

\* C18 witness: a low record and, appended after it, a critical record were
\* claimed in one batch; the low one was dispatched to a handler and
\* acknowledged, and the critical one is being dispatched.
C18_Witness ==
  /\ Len(stream) = 2
  /\ stream[1].priority = "low"
  /\ stream[2].priority = "critical"
  /\ Len(batch) = 2
  /\ pc = "dispatch"
  /\ bpos = 2
  /\ invoked[1] # << >>
  /\ ack[1] = "ok"

\* C19: a claimed record has between 1 and max_attempts processing attempts
\* and then at most one outcome, which is final; it is acknowledged only
\* after an attempt that succeeded, it is copied to the dead-letter stream
\* (once) only after max_attempts failed attempts, and it is never both
\* acknowledged and dead-lettered.
C19_MessageStateMachine ==
  /\ [](\A m \in MsgIds :
          /\ attempts[m] <= max_attempts
          /\ m > lastDelivered =>
               attempts[m] = 0 /\ ack[m] = "none" /\ result[m] = "none"
          /\ result[m] # "none" => attempts[m] \in 1..max_attempts
          /\ ack[m] # "none" => result[m] = "success"
          /\ FailedMessagesOf(m) # {} =>
               /\ Cardinality(FailedMessagesOf(m)) = 1
               /\ attempts[m] = max_attempts
               /\ result[m] = "failed"
               /\ ~ParseOk(stream[m])
          /\ ~(ack[m] = "ok" /\ FailedMessagesOf(m) # {}))
  /\ [][\A m \in MsgIds : result[m] # "none" =>
          /\ result'[m] = result[m]
          /\ attempts'[m] = attempts[m]
          /\ ack[m] = "ok" => ack'[m] = "ok"]_vars

\* C19 witness: with three attempts configured, one record was acknowledged
\* after its first attempt and another was dead-lettered after its third.
C19_Witness ==
  /\ max_attempts = 3
  /\ \E m, n \in 1..lastDelivered :
       /\ ack[m] = "ok" /\ attempts[m] = 1
       /\ FailedMessagesOf(n) # {} /\ attempts[n] = 3 /\ ack[n] = "none"

\* The loop was started and has not ended.
LoopAlive == pc \notin {"idle", "done"}

\* C20: after a record was dead-lettered the loop goes on with the next
\* record of the batch, or with the next read after the last one; with the
\* broker reachable, a well-formed record appended after a dead-lettered one
\* is eventually acknowledged unless the loop is stopped.
C20_ExhaustionNotFatal ==
  /\ [][(pc = "storemsg" /\ pc' # "storemsg") =>
          IF bpos < Len(batch)
            THEN pc' = "proc" /\ batch' = batch /\ bpos' = bpos + 1
            ELSE pc' = "top" /\ running' = running]_vars
  /\ \A n \in MsgIds :
       (/\ LoopAlive
        /\ n <= Len(stream)
        /\ \E m \in 1..(n - 1) : FailedMessagesOf(m) # {})
         ~> (stopRequested \/ ack[n] = "ok" \/ FailedMessagesOf(n) # {})

\* C20 witness: the first record of a batch of two was dead-lettered and
\* the well-formed record behind it was dispatched to a handler and
\* acknowledged.
C20_Witness ==
  /\ lastDelivered = 2
  /\ FailedMessagesOf(1) # {}
  /\ WellFormed(2)
  /\ invoked[2] # << >>
  /\ ack[2] = "ok"
  /\ ~stopRequested

\* C21: the record an append writes carries as attempt the 1-based number of
\* that append within its publish() call: the i-th append carries i, a later
\* append of the call a larger number than an earlier one, and never more
\* than max_attempts.
C21_AttemptField ==
  /\ [](\A m \in 1..Len(stream) :
          /\ stream[m].attempt \in 1..max_attempts
          /\ m \in WithId(pevent.id) =>
               stream[m].attempt = pappends /\ stream[m].attempt = pattempt + 1)
  /\ [][Len(stream') > Len(stream) =>
          /\ pappends' = (IF pcalls' # pcalls THEN 1 ELSE pappends + 1)
          /\ stream'[Len(stream')].attempt = pappends']_vars

\* C21 witness: the third append of a call wrote the record, which carries
\* attempt 3.
C21_Witness ==
  /\ poutcome = "returned"
  /\ pappends = 3
  /\ \E m \in WithId(pevent.id) : stream[m].attempt = 3

\* C22: the handlers of a parsed record's type are invoked one after the
\* other in the order of their subscription: at every point of a dispatch the
\* handlers invoked so far are the first ones of the type's list, in list
\* order, whichever of them raised, and the dispatch ends only when the whole
\* list was invoked.
C22_DispatchOrder ==
  /\ [](pc = "dispatch" =>
          /\ cbIdx \in 1..(Len(subscribers[stream[Cur].type]) + 1)
          /\ invoked[Cur] = SubSeq(subscribers[stream[Cur].type], 1, cbIdx - 1)
          /\ raisedIn[Cur] \subseteq 1..(cbIdx - 1))
  /\ [][(pc = "dispatch" /\ pc' = "dispatch") =>
          /\ Len(invoked'[Cur]) = Len(invoked[Cur]) + 1
          /\ SubSeq(invoked'[Cur], 1, Len(invoked[Cur])) = invoked[Cur]]_vars
  /\ [][(pc = "dispatch" /\ pc' # "dispatch") =>
          Len(invoked[Cur]) = Len(subscribers[stream[Cur].type])]_vars

\* C22 witness: h2 was subscribed before h1 for the record's type; h2 was
\* invoked first and raised, h1 was invoked second and returned.
C22_Witness ==
  \E m \in 1..lastDelivered :
    /\ stream[m].type \in EventType
    /\ subscribers[stream[m].type] = << "h2", "h1" >>
    /\ invoked[m] = << "h2", "h1" >>
    /\ raisedIn[m] = {1}
    /\ result[m] = "success"

\* Records of the main stream stored with type t.
OfType(t) == {m \in 1..Len(stream) : stream[m].type = t}

\* C23 as stated: get_event_history(event_type=T, limit=n) on a connected bus
\* returns exactly min(n, number of records of type T in the main stream)
\* entries, all of type T, however many records of other types follow them.
C23_HistoryByType ==
  [][(/\ hcalls' # hcalls
      /\ redis_client
      /\ htype' \in EventType)
     => /\ Len(hist') = Min(hlimit', Cardinality(OfType(htype')))
        /\ \A i \in 1..Len(hist') :
             DictGet(hist'[i], "type", NoneValue) = htype']_vars

\* The waits the claim states for connect(), in order.
ClaimedConnectWaits == << 1, 2 >>

\* C25: connect() returns at its first successful attempt and makes at most
\* three attempts; it waits 1 second after the first failure and 2 seconds
\* after the second, whatever the RetryConfig; after the third failure it
\* raises EventBusError without a wait; a group creation that fails with
\* another error than BUSYGROUP fails the attempt.
C25_ConnectRetries ==
  /\ [](ccall = "connect" =>
          /\ cattempt \in 0..2
          /\ cslept = SubSeq(ClaimedConnectWaits, 1, Len(cslept))
          /\ Len(cslept) = (IF cpc = "c_sleep" THEN cattempt + 1 ELSE cattempt)
          /\ coutcome = "EventBusError" => cattempt = 2 /\ cpc = "idle"
          /\ coutcome = "returned" => cpc = "idle" /\ redis_client)
  /\ [][(coutcome # "returned" /\ coutcome' = "returned") =>
          /\ cpc = "c_fgroup"
          /\ ConsumerGroup \in groups' /\ FailedGroup \in fgroups'
          /\ cattempt' = cattempt /\ cslept' = cslept]_vars
  /\ [][cpc = "c_fgroup" => cpc' \in {"c_fgroup", "c_sleep", "idle"}]_vars
  /\ [][(cpc \in {"c_ping", "c_group", "c_fgroup"}
          /\ cpc' \in {"c_sleep", "idle"} /\ coutcome' # "returned") =>
            IF cattempt < 2
              THEN /\ cpc' = "c_sleep"
                   /\ cslept' = Append(cslept, ClaimedConnectWaits[cattempt + 1])
              ELSE /\ coutcome' = "EventBusError"
                   /\ cslept' = cslept]_vars
  /\ [][(cpc = "c_group" /\ cpc' = "c_fgroup") =>
          ConsumerGroup \in groups']_vars

\* C25 witness: on a bus configured with base_delay 2 and exponential_base 1,
\* a connect() call waited 1 and then 2 seconds and raised EventBusError
\* after its third failed attempt.
C25_Witness ==
  /\ ccall = "connect"
  /\ coutcome = "EventBusError"
  /\ cattempt = 2
  /\ cslept = << 1, 2 >>
  /\ base_delay = 2
  /\ exponential_base = 1

\* C27: within the delivery of a record every registration of its type is
\* invoked at most once: an invocation happens only in the record's first
\* processing attempt and takes the next position of the list; the attempt
\* that reaches the dispatch ends in success, so a record that is attempted
\* again had no handler invoked, and no handler is invoked for a record after
\* its dispatch.
C27_NoReinvocation ==
  /\ [](\A m \in 1..Len(stream) :
          /\ attempts[m] >= 2 => invoked[m] = << >>
          /\ invoked[m] # << >> => attempts[m] = 1 /\ result[m] # "failed")
  /\ [][\A m \in 1..Len(stream) : invoked'[m] # invoked[m] =>
          /\ pc = "dispatch" /\ Cur = m /\ result[m] = "none"
          /\ Len(invoked[m]) = cbIdx - 1
          /\ cbIdx' = cbIdx + 1
          /\ invoked'[m] = Append(invoked[m], subscribers[stream[m].type][cbIdx])
          ]_vars
  /\ [][(pc = "dispatch" /\ pc' # "dispatch") =>
          /\ result'[Cur] = "success"
          /\ pc' \notin {"proc", "backoff", "storemsg"}
          /\ attempts'[Cur] = 1]_vars

\* C27 witness: with three attempts configured, a handler registered twice
\* for the type was invoked twice, once per registration, the first
\* invocation raised, and the record was acknowledged after one attempt.
C27_Witness ==
  /\ max_attempts = 3
  /\ \E m \in 1..lastDelivered :
       /\ invoked[m] = << "h1", "h1" >>
       /\ raisedIn[m] = {1}
       /\ attempts[m] = 1
       /\ ack[m] = "ok"

\* C29: a well-formed record processed while its type has no registered
\* handler is a success of its first attempt and is acknowledged with no
\* handler invoked; the loop claims only records above its cursor, so no
\* handler subscribed later is invoked for the record.
C29_NoHandlerRecord ==
  /\ [][(pc = "dispatch" /\ pc' # "dispatch"
          /\ subscribers[stream[Cur].type] = << >>) =>
            /\ invoked'[Cur] = << >>
            /\ result'[Cur] = "success"
            /\ attempts'[Cur] = 1
            /\ pc' = "ack" /\ batch'[bpos'] = Cur]_vars
  /\ [](\A m \in 1..lastDelivered :
          (WellFormed(m) /\ invoked[m] = << >> /\ ~Handling(m) /\ ~Waiting(m))
            => result[m] = "success" /\ ack[m] = "ok" /\ FailedMessagesOf(m) = {})
  /\ [][\A m \in 1..lastDelivered :
          /\ result[m] = "success" => invoked'[m] = invoked[m]
          /\ ack[m] = "ok" => ack'[m] = "ok"
          /\ \A i \in 1..Len(batch') :
               batch'[i] = m => \E j \in 1..Len(batch) : batch[j] = m]_vars

\* C29 witness: a well-formed record was acknowledged with no handler
\* invoked; its type has a handler now, and the loop is reading again.
C29_Witness ==
  /\ pc = "read"
  /\ \E m \in 1..lastDelivered :
       /\ WellFormed(m)
       /\ ack[m] = "ok"
       /\ invoked[m] = << >>
       /\ subscribers[stream[m].type] # << >>

\* List s without its element at position i.
Without(s, i) == SubSeq(s, 1, i - 1) \o SubSeq(s, i + 1, Len(s))

\* C30: unsubscribe(T, h) removes from the list of T the earliest
\* registration of h and nothing else: the registrations before and after it,
\* later registrations of h among them, keep their order, and the lists of
\* the other types stay as they are; when h is not in the list of T, nothing
\* changes.
C30_UnsubscribeEarliest ==
  /\ [][ulog' # ulog =>
          /\ ulog'.before = subscribers[ulog'.type]
          /\ \A t \in EventType \ {ulog'.type} : subscribers'[t] = subscribers[t]
          /\ IF \E i \in 1..Len(ulog'.before) : ulog'.before[i] = ulog'.handler
               THEN \E i \in 1..Len(ulog'.before) :
                      /\ ulog'.before[i] = ulog'.handler
                      /\ \A j \in 1..(i - 1) : ulog'.before[j] # ulog'.handler
                      /\ subscribers'[ulog'.type] = Without(ulog'.before, i)
               ELSE subscribers' = subscribers]_vars
  /\ [][\A t \in EventType : Len(subscribers'[t]) < Len(subscribers[t]) =>
          /\ Len(subscribers'[t]) = Len(subscribers[t]) - 1
          /\ ulog'.type = t /\ ulog'.before = subscribers[t]]_vars

\* C30 witness: h1 was registered before and after h2 under one type;
\* unsubscribe of h1 left h2 followed by the later registration of h1.
C30_Witness ==
  /\ ulog.handler = "h1"
  /\ ulog.before = << "h1", "h2", "h1" >>
  /\ subscribers[ulog.type] = << "h2", "h1" >>

\* Occurrences of h in list s.
Count(s, h) == Cardinality({i \in 1..Len(s) : s[i] = h})

\* C28 as stated: when a dispatch ends, every handler that was registered
\* for the record's type throughout it (it is registered at the end and was
\* not unsubscribed meanwhile) was invoked exactly once per registration,
\* also when other handlers of the type were unsubscribed during the
\* dispatch.
C28_NoHandlerSkipped ==
  [][(pc = "dispatch" /\ pc' # "dispatch") =>
       \A h \in Handlers \ gone[Cur] :
         Count(invoked'[Cur], h) = Count(subscribers[stream[Cur].type], h)]_vars

\* C24: the main stream only grows: no step of the bus (acknowledge,
\* dead-lettering, subscribe, unsubscribe, stop, disconnect, reconnect,
\* get_stream_info) removes or changes a record that is in it, so a record
\* stays in the stream as appended, consumed or not, acknowledged or
\* dead-lettered.
C24_AppendOnly ==
  [][/\ Len(stream') >= Len(stream)
     /\ \A m \in 1..Len(stream) : stream'[m] = stream[m]]_vars

\* C24 witness: the record publish() appended was dead-lettered by the loop,
\* the bus was disconnected afterwards, and the record is in the main stream
\* as it was published.
C24_Witness ==
  /\ ccall = "disconnect" /\ cpc = "idle"
  /\ pool = "closed"
  /\ \E m \in 1..Len(stream) :
       /\ stream[m] = RecordFields(pevent, 0)
       /\ result[m] = "failed"
       /\ FailedMessagesOf(m) # {}

\* C26 as stated: the loops of an instance share the running flag, and a
\* stop_consuming() call makes every loop exit at its next check of line 302.
\* For the loop that was started first: once stop_consuming() was called
\* while it ran, its next check ends it; and whenever a check ends one loop,
\* the flag is down for every other loop as well.
C26_StopReachesEveryLoop ==
  /\ [][(pc = "top" /\ pc' # "top" /\ stopRequested) => pc' = "done"]_vars
  /\ [][(pc = "top" /\ pc' = "done") => ~running]_vars
  /\ [][\A w \in OtherLoops :
          (others[w] = "read" /\ others'[w] = "done") => ~running]_vars
====
